---- MODULE Spec2Model ----
(***************************************************************************)
(* Model of the GPU telemetry engine of widgitron:                         *)
(*   - GPUWorker (src/widgets/gpu_monitor.py): the poller thread, its SSH  *)
(*     session cache, the direct and Slurm parsers;                        *)
(*   - GPUMonitor / WidgetManager: the widget life cycle that starts and   *)
(*     stops pollers.                                                      *)
(***************************************************************************)
EXTENDS Integers, Sequences, FiniteSets, TLC

\* ------------------------------------------------------------------ bounds
MaxServers == 2      \* longest configured server list
MaxRounds  == 3      \* rounds of the poller loop that are explored
MaxKills   == 1      \* sessions the environment may kill
MaxWidgets == 4      \* GPUMonitor instances ever created
MaxLines   == 3      \* longest output of the direct query, in lines
MaxTime    == 4      \* ticks of the clock that are explored

\* ------------------------------------------------------- program constants
DefaultPort == 22
UPDATE_INTERVAL == 1           \* the configured poll interval at import
IntervalChoices == {1, 5}      \* two of the offered poll intervals (seconds)
IDLE_THRESHOLD == 2            \* the configured idle threshold, in ticks

\* Python's None for a cached session, and for a recorded error.
None    == 0
ErrNone == "<None>"

\* --------------------------------------------------------------- host configs
\* has_host, has_user: the entry has the key; has_cred: a key file that
\* exists is configured, or the default key exists, or the entry has a
\* password.
Server(host, type, proxy) ==
    [host |-> host, port |-> DefaultPort, type |-> type, proxy |-> proxy,
     has_host |-> TRUE, has_user |-> TRUE, has_cred |-> TRUE]

\* the entry without one of its keys
Lacking(server, key) == [server EXCEPT ![key] = FALSE]

\* The hosts of the configuration file a fleet is drawn from: a direct
\* host reached over a session, a Slurm head node, the local machine and a
\* host behind a jump proxy, each with every key it needs.
ServerPool ==
    << Server("gpu1", "direct", FALSE),
       Server("hpc", "slurm", FALSE),
       Server("localhost", "direct", FALSE),
       Server("gpu2", "direct", TRUE) >>

\* the pool entries with the indices in picks, in file order
RECURSIVE Pick(_, _)
Pick(picks, k) ==
    IF k > Len(ServerPool) THEN <<>>
    ELSE (IF k \in picks THEN <<ServerPool[k]>> ELSE <<>>) \o Pick(picks, k + 1)

ServerLists ==
    { Pick(picks, 1) :
        picks \in { q \in SUBSET (1..Len(ServerPool)) :
                      Cardinality(q) <= MaxServers } }

get_server_id(server) == <<server.host, server.port>>

IsLoopback(server) == server.host \in {"localhost", "127.0.0.1"}

\* dict[key] = value
Put(f, k, v) == [x \in (DOMAIN f) \cup {k} |-> IF x = k THEN v ELSE f[x]]

\* dict.get(key, default)
Get(f, k, d) == IF k \in DOMAIN f THEN f[k] ELSE d

EmptyDict == [x \in {} |-> None]

\* nothing is being evaluated; nothing has been returned; no check was made
NoArg == [fn |-> "none"]
NoResult == [done |-> FALSE]
NoAlert == [checked |-> FALSE]
NoSnapshot == [at |-> 0, data |-> EmptyDict]

\* ------------------------------------------------------------ host entries
Frag(tag, txt, n, m) == [tag |-> tag, txt |-> txt, n |-> n, m |-> m]

ErrorEntry(msg) ==
    [gpu_list |-> <<>>, gpu_info |-> <<Frag("Error", msg, 0, 0)>>,
     has_stats |-> FALSE, partition_stats |-> EmptyDict]

NoDataEntry ==
    [gpu_list |-> <<>>, gpu_info |-> <<Frag("No GPU data", "", 0, 0)>>,
     has_stats |-> FALSE, partition_stats |-> EmptyDict]

IsErrorEntry(e) == Len(e.gpu_info) = 1 /\ e.gpu_info[1].tag = "Error"

\* ------------------------------------------------------ direct-mode parser
\* One output line of nvidia-smi: the number of comma separated parts, the
\* name, and the three numeric fields; numeric = FALSE when float() of one
\* of them raises ValueError.
Line(nparts, name, mem_used, mem_total, util, numeric) ==
    [nparts |-> nparts, name |-> name, mem_used |-> mem_used,
     mem_total |-> mem_total, util |-> util, numeric |-> numeric]

BusyLine  == Line(4, "NVIDIA A100", 1024, 40960, 55, TRUE)
IdleLine  == Line(4, "NVIDIA A100", 0, 40960, 0, TRUE)
ShortLine == Line(2, "garbage", 0, 0, 0, TRUE)
NonNumLine == Line(4, "NVIDIA A100", 0, 0, 0, FALSE)

RECURSIVE DirectRaises(_)
DirectRaises(lines) ==
    IF lines = <<>> THEN FALSE
    ELSE (Head(lines).nparts >= 4 /\ ~Head(lines).numeric)
         \/ DirectRaises(Tail(lines))

RECURSIVE DirectGpuList(_)
DirectGpuList(lines) ==
    IF lines = <<>> THEN <<>>
    ELSE LET l == Head(lines) IN
         IF l.nparts >= 4
         THEN <<[name |-> l.name, mem_used |-> l.mem_used,
                 mem_total |-> l.mem_total, util |-> l.util]>>
              \o DirectGpuList(Tail(lines))
         ELSE DirectGpuList(Tail(lines))

RECURSIVE DirectGpuInfo(_)
DirectGpuInfo(lines) ==
    IF lines = <<>> THEN <<>>
    ELSE LET l == Head(lines) IN
         IF l.nparts >= 4
         THEN <<Frag("GPU", l.name, l.util, l.mem_used)>>
              \o DirectGpuInfo(Tail(lines))
         ELSE <<Frag("Invalid GPU data", l.name, 0, 0)>>
              \o DirectGpuInfo(Tail(lines))

\* variant: the devices parsed before the ValueError are kept
ParseDirect_keeps_devices(output) ==
    IF output = <<>> THEN NoDataEntry
    ELSE IF DirectRaises(output)
         THEN [ErrorEntry("could not convert string to float")
                 EXCEPT !.gpu_list = DirectGpuList(output)]
         ELSE [gpu_list |-> DirectGpuList(output),
               gpu_info |-> DirectGpuInfo(output),
               has_stats |-> FALSE, partition_stats |-> EmptyDict]

ParseDirect(output) ==
    IF output = <<>> THEN NoDataEntry
    ELSE IF DirectRaises(output)
         THEN ErrorEntry("could not convert string to float")
         ELSE [gpu_list |-> DirectGpuList(output),
               gpu_info |-> DirectGpuInfo(output),
               has_stats |-> FALSE, partition_stats |-> EmptyDict]

DirectOutputs == { <<>>, <<BusyLine>>, <<IdleLine, ShortLine>> }

\* ------------------------------------------------------------------ strings
\* A string the code takes apart is the sequence of its characters.
\* key in name
Contains(name, key) ==
    \E i \in 0..(Len(name) - Len(key)) : SubSeq(name, i + 1, i + Len(key)) = key

Digits == <<"0", "1", "2", "3", "4", "5", "6", "7", "8", "9">>

IsDigit(c) == \E d \in 1..Len(Digits) : Digits[d] = c

\* str.isdigit()
isdigit(s) == s # <<>> /\ \A i \in 1..Len(s) : IsDigit(s[i])

\* int(s), for a string of digits
RECURSIVE int(_)
int(s) ==
    IF s = <<>> THEN 0
    ELSE 10 * int(SubSeq(s, 1, Len(s) - 1))
         + (CHOOSE d \in 1..Len(Digits) : Digits[d] = s[Len(s)]) - 1

\* s.split(sep), for a separator of one character
RECURSIVE split_on(_, _, _)
split_on(s, sep, word) ==
    IF s = <<>> THEN <<word>>
    ELSE IF Head(s) = sep THEN <<word>> \o split_on(Tail(s), sep, <<>>)
    ELSE split_on(Tail(s), sep, Append(word, Head(s)))

\* the longest run of digits s begins with
RECURSIVE leading_digits(_)
leading_digits(s) ==
    IF s # <<>> /\ IsDigit(Head(s)) THEN <<Head(s)>> \o leading_digits(Tail(s))
    ELSE <<>>

\* ---------------------------------------------------------- Slurm parser
\* Names the scheduler output is written with, in sorted() order.
PartitionNames == <<"debug", "gpu", "long">>
NodeNames == <<"node1", "node2">>

Rank(name, vocab) == CHOOSE i \in 1..Len(vocab) : vocab[i] = name

\* One line of "scontrol show partition -o": has_name = the PartitionName=
\* token matched; state = the State= token, "UNKNOWN" when it is missing.
PartLine(has_name, name, state) ==
    [has_name |-> has_name, name |-> name, state |-> state]

\* One line of "scontrol show node -o": partitions = the comma separated
\* Partitions= token (<<>> when missing); gres, cfg, alloc = the text of the
\* Gres=, CfgTRES= and AllocTRES= tokens (<<>> when the token is missing).
NodeLine(has_name, name, partitions, gres, cfg, alloc) ==
    [has_name |-> has_name, name |-> name, partitions |-> partitions,
     gres |-> gres, cfg |-> cfg, alloc |-> alloc]

\* Gres= tokens: a count, a type and a count, a count with the sockets the
\* devices hang on, GPUs next to another resource, and no resource
GresCount == <<"g", "p", "u", ":", "2">>
GresTyped == <<"g", "p", "u", ":", "a", "1", "0", "0", ":", "2">>
GresSockets == <<"g", "p", "u", ":", "a", "1", "0", "0", ":", "2", "(", "S", ":", "0", "-", "1", ")">>
GresShared == <<"g", "p", "u", ":", "1", ",", "m", "p", "s", ":", "3">>
GresOne == <<"g", "p", "u", ":", "v", "1", "0", "0", ":", "1">>
GresNull == <<"(", "n", "u", "l", "l", ")">>
\* CfgTRES= and AllocTRES= tokens, with and without GPUs
TresGpu == <<"c", "p", "u", "=", "8", ",", "g", "r", "e", "s", "/", "g", "p", "u", "=", "1">>
TresMany == <<"c", "p", "u", "=", "8", ",", "g", "r", "e", "s", "/", "g", "p", "u", "=", "3">>
TresNoGpu == <<"c", "p", "u", "=", "8", ",", "m", "e", "m", "=", "1", "G">>
NoToken == <<>>

\* 'DRAIN' in state or 'INACTIVE' in state or 'DOWN' in state
StateExcluded(state) == state \in {"DRAIN", "DRAINED", "INACTIVE", "DOWN"}

\* variant: the state of a partition is not looked at
RECURSIVE valid_partitions_keeps_drained(_)
valid_partitions_keeps_drained(part_lines) ==
    IF part_lines = <<>> THEN {}
    ELSE LET l == Head(part_lines) IN
         IF l.has_name
         THEN {l.name} \cup valid_partitions_keeps_drained(Tail(part_lines))
         ELSE valid_partitions_keeps_drained(Tail(part_lines))

RECURSIVE valid_partitions(_)
valid_partitions(part_lines) ==
    IF part_lines = <<>> THEN {}
    ELSE LET l == Head(part_lines) IN
         IF l.has_name /\ ~StateExcluded(l.state)
         THEN {l.name} \cup valid_partitions(Tail(part_lines))
         ELSE valid_partitions(Tail(part_lines))

RECURSIVE FilterSeq(_, _)
FilterSeq(seq, keep) ==
    IF seq = <<>> THEN <<>>
    ELSE IF Head(seq) \in keep
         THEN <<Head(seq)>> \o FilterSeq(Tail(seq), keep)
         ELSE FilterSeq(Tail(seq), keep)

\* for p in reversed(parts): if p.isdigit(): gpu_count = int(p); break
RECURSIVE last_digit_part(_)
last_digit_part(parts) ==
    IF parts = <<>> THEN 0
    ELSE IF isdigit(parts[Len(parts)]) THEN int(parts[Len(parts)])
    ELSE last_digit_part(SubSeq(parts, 1, Len(parts) - 1))

\* Strategy 1: the count read from the Gres= token
gres_gpu_count(gres) ==
    IF gres # NoToken /\ Contains(gres, <<"g", "p", "u">>) /\ gres # GresNull
    THEN last_digit_part(split_on(gres, ":", <<>>))
    ELSE 0

\* the type read from the Gres= token, "GPU" by default
gres_gpu_type(gres) ==
    LET parts == split_on(gres, ":", <<>>) IN
    IF gres # NoToken /\ Contains(gres, <<"g", "p", "u">>) /\ gres # GresNull
       /\ (Len(parts) > 2 \/ (Len(parts) = 2 /\ ~isdigit(parts[2])))
    THEN parts[2]
    ELSE <<"G", "P", "U">>

\* re.search(r'gres/gpu=(\d+)', tres): the number after the first
\* "gres/gpu=" that digits follow, 0 when there is none
tres_gpus(tres) ==
    LET key == <<"g", "r", "e", "s", "/", "g", "p", "u", "=">>
        hits == { i \in 1..Len(tres) :
                    /\ i + Len(key) <= Len(tres)
                    /\ SubSeq(tres, i, i + Len(key) - 1) = key
                    /\ IsDigit(tres[i + Len(key)]) }
    IN IF hits = {} THEN 0
       ELSE LET i == CHOOSE h \in hits : \A g \in hits : h <= g
            IN int(leading_digits(SubSeq(tres, i + Len(key), Len(tres))))

\* what the three readers give for each token the outputs are written
\* with, computed once
GresTokens == {NoToken, GresNull, GresCount, GresTyped, GresSockets,
               GresShared, GresOne}
TresTokens == {NoToken, TresGpu, TresMany, TresNoGpu}
GresGpuCount == [gres \in GresTokens |-> gres_gpu_count(gres)]
GresGpuType == [gres \in GresTokens |-> gres_gpu_type(gres)]
TresGpus == [tres \in TresTokens |-> tres_gpus(tres)]

\* Strategy 2: the CfgTRES= count, if Strategy 1 gave 0
node_gpu_count(node) ==
    IF GresGpuCount[node.gres] # 0 THEN GresGpuCount[node.gres]
    ELSE TresGpus[node.cfg]

alloc_count(node) == TresGpus[node.alloc]

NodeDevices(node, valid) ==
    LET partitions == FilterSeq(node.partitions, valid)
        gpu_count == node_gpu_count(node)
    IN IF ~node.has_name \/ partitions = <<>> \/ gpu_count = 0 THEN <<>>
       ELSE [k \in 1..gpu_count |->
               [name |-> node.name, index |-> k - 1,
                mem_used |-> 0, mem_total |-> 0,
                util |-> IF k - 1 < alloc_count(node) THEN 100 ELSE 0,
                display_type |-> GresGpuType[node.gres],
                partitions |-> partitions]]

RECURSIVE SlurmGpuList(_, _)
SlurmGpuList(node_lines, valid) ==
    IF node_lines = <<>> THEN <<>>
    ELSE NodeDevices(Head(node_lines), valid)
         \o SlurmGpuList(Tail(node_lines), valid)

RECURSIVE Occurrences(_, _)
Occurrences(seq, x) ==
    IF seq = <<>> THEN 0
    ELSE (IF Head(seq) = x THEN 1 ELSE 0) + Occurrences(Tail(seq), x)

\* variant: a device counts for the first of its partitions only
RECURSIVE StatTotal_first_partition_only(_, _)
StatTotal_first_partition_only(gpu_list, p) ==
    IF gpu_list = <<>> THEN 0
    ELSE (IF Head(gpu_list).partitions[1] = p THEN 1 ELSE 0)
         + StatTotal_first_partition_only(Tail(gpu_list), p)

RECURSIVE StatTotal(_, _)
StatTotal(gpu_list, p) ==
    IF gpu_list = <<>> THEN 0
    ELSE Occurrences(Head(gpu_list).partitions, p)
         + StatTotal(Tail(gpu_list), p)

RECURSIVE StatFree(_, _)
StatFree(gpu_list, p) ==
    IF gpu_list = <<>> THEN 0
    ELSE (IF Head(gpu_list).util = 0
          THEN Occurrences(Head(gpu_list).partitions, p) ELSE 0)
         + StatFree(Tail(gpu_list), p)

partition_stats(gpu_list) ==
    LET ps == UNION { {gpu_list[i].partitions[j] :
                         j \in 1..Len(gpu_list[i].partitions)} :
                      i \in 1..Len(gpu_list) }
    IN [p \in ps |-> [free |-> StatFree(gpu_list, p),
                      total |-> StatTotal(gpu_list, p)]]

RECURSIVE CountFree(_)
CountFree(gpu_list) ==
    IF gpu_list = <<>> THEN 0
    ELSE (IF Head(gpu_list).util = 0 THEN 1 ELSE 0)
         + CountFree(Tail(gpu_list))

\* sorted(partition_stats.keys()) rendered as summary fragments
RECURSIVE SummaryParts(_, _)
SummaryParts(stats, k) ==
    IF k > Len(PartitionNames) THEN <<>>
    ELSE (IF PartitionNames[k] \in DOMAIN stats
          THEN <<Frag("Partition", PartitionNames[k],
                      stats[PartitionNames[k]].free,
                      stats[PartitionNames[k]].total)>>
          ELSE <<>>)
         \o SummaryParts(stats, k + 1)

\* list.sort(key=name): stable insertion of g into an already sorted list
RECURSIVE InsertByName(_, _)
InsertByName(sorted, g) ==
    IF sorted = <<>> THEN <<g>>
    ELSE IF Rank(g.name, NodeNames) < Rank(Head(sorted).name, NodeNames)
         THEN <<g>> \o sorted
         ELSE <<Head(sorted)>> \o InsertByName(Tail(sorted), g)

RECURSIVE SortByName(_)
SortByName(gpu_list) ==
    IF gpu_list = <<>> THEN <<>>
    ELSE InsertByName(SortByName(SubSeq(gpu_list, 1, Len(gpu_list) - 1)),
                      gpu_list[Len(gpu_list)])

SlurmOutput(part_lines, node_lines) ==
    [parts |-> part_lines, nodes |-> node_lines]

ParseSlurm(output) ==
    LET gpu_list == SlurmGpuList(output.nodes, valid_partitions(output.parts))
        stats == partition_stats(gpu_list)
    IN [gpu_list |-> SortByName(gpu_list),
        gpu_info |-> <<Frag("Total", "", CountFree(gpu_list), Len(gpu_list))>>
                     \o SummaryParts(stats, 1),
        has_stats |-> TRUE,
        partition_stats |-> stats]

SlurmOutputs ==
    { SlurmOutput(<<PartLine(TRUE, "gpu", "UP"),
                    PartLine(TRUE, "long", "DRAIN")>>,
                  <<NodeLine(TRUE, "node1", <<"gpu", "long">>,
                             GresTyped, NoToken, TresGpu)>>) }

GoodOutput(server) == IF server.type = "slurm" THEN SlurmOutputs ELSE DirectOutputs

Parse(server, output) ==
    IF server.type = "slurm" THEN ParseSlurm(output) ELSE ParseDirect(output)

\* the parse of every output the poller is given, computed once
PolledParse ==
    [type \in {"slurm", "direct"} |->
       [output \in (IF type = "slurm" THEN SlurmOutputs ELSE DirectOutputs) |->
          Parse([type |-> type], output)]]

\* ------------------------------------------------------------------ state
VARIABLES
    servers,            \* GPUWorker.servers: the configured host list
    running,            \* GPUWorker.running: the stop flag
    update_interval,    \* GPUWorker.update_interval
    ssh_connections,    \* GPUWorker.ssh_connections: id -> session or None
    connection_errors,  \* GPUWorker.connection_errors: id -> message or None
    pc,                 \* where GPUWorker.run is
    idx,                \* position of the for loop over self.servers
    gpu_data,           \* the snapshot the current round is building
    sleep_dur,          \* duration of the time.sleep in progress (0: none)
    round,              \* rounds started so far
    nsess,              \* sessions opened so far (sessions are 1..nsess)
    closed,             \* sessions on which close() was called
    call,               \* history: the last get_gpu_info call of the round
    conn_failed,        \* history: ids whose latest fetch was a connection error
    gpu_ref,            \* identity of the dict the local gpu_data is bound to
    emitted,            \* history: identity of the dict emitted last (0: none)
    widgets,            \* GPUMonitor instances ever created
    active_widgets,     \* main_window.active_widgets['gpu_monitor'] (0: none)
    started,            \* WidgitronMainWindow.__init__ has run
    fun_in,             \* the argument of the function under evaluation
    fun_out,            \* its result, once it has returned
    now,                \* time.time(), in ticks
    last_active_times,  \* GPUMonitor.last_active_times: id -> time
    display_style,      \* GPUMonitor.display_style
    idle_alert,         \* history: what the latest check_idle did
    delivered,          \* history: the latest snapshot given to the widget
    seen_active,        \* history: id -> time a busy device was last delivered
    GPU_CONFIG          \* the module global GPU_CONFIG: the settings in force

workerVars == <<servers, running, update_interval, ssh_connections,
                connection_errors, pc, idx, gpu_data, sleep_dur, round,
                nsess, closed, call, conn_failed, gpu_ref, emitted>>
widgetVars == <<widgets, active_widgets, started>>
funVars == <<fun_in, fun_out>>
idleVars == <<now, last_active_times, display_style, idle_alert, delivered,
              seen_active, GPU_CONFIG>>
vars == <<workerVars, widgetVars, funVars, idleVars>>

\* ------------------------------------------------------ connection manager
\* The part of the state _get_ssh_connection works on.
ConnState ==
    [conns |-> ssh_connections, errs |-> connection_errors,
     nsess |-> nsess, closed |-> closed]

\* What a call returns: the new state, the returned session (None: no
\* session), whether an exception leaves the call, and what the call did.
CallResult(cs, ret, exc, probed, closed_sess, connects) ==
    [cs |-> cs, ret |-> ret, exc |-> exc, probed |-> probed,
     closed_sess |-> closed_sess, connects |-> connects]

\* ssh.connect returned: cache the new session, clear the error
connect_succeeded(cs, sid, probed, closed_sess) ==
    CallResult([cs EXCEPT !.conns = Put(@, sid, cs.nsess + 1),
                          !.errs = Put(@, sid, ErrNone),
                          !.nsess = @ + 1],
               cs.nsess + 1, FALSE, probed, closed_sess, 1)

\* variant: a live cached session is replaced by a new connection
reuse_cached_reconnects(cs, sid) == connect_succeeded(cs, sid, TRUE, None)

\* the probe succeeded: clear the error, return the cached session
reuse_cached(cs, sid) ==
    CallResult([cs EXCEPT !.errs = Put(@, sid, ErrNone)],
               cs.conns[sid], FALSE, TRUE, None, 0)

\* variant: the dead session is forgotten without close()
discard_dead_without_close(cs, sid) == [cs EXCEPT !.conns = Put(@, sid, None)]

\* the probe raised: close() (an exception of close is swallowed) and
\* forget the cached session
discard_dead(cs, sid) ==
    [cs EXCEPT !.conns = Put(@, sid, None),
               !.closed = @ \cup {cs.conns[sid]}]

\* variant: the exception of the connect block leaves the call
connect_failed_raises(cs, sid, probed, closed_sess) ==
    CallResult(cs, None, TRUE, probed, closed_sess, 1)

\* the connect block raised: record str(e), return None
connect_failed(cs, sid, probed, closed_sess) ==
    CallResult([cs EXCEPT !.conns = Put(@, sid, None),
                          !.errs = Put(@, sid, "Unable to connect")],
               None, FALSE, probed, closed_sess, 1)

\* variant: a host with a recorded error is not connected to again
connect_gives_up(cs, sid, reachable, probed, closed_sess) ==
    IF reachable /\ Get(cs.errs, sid, ErrNone) = ErrNone
    THEN connect_succeeded(cs, sid, probed, closed_sess)
    ELSE connect_failed(cs, sid, probed, closed_sess)

\* one pass through the connect block; reachable: ssh.connect returns
connect(cs, sid, reachable, probed, closed_sess) ==
    IF reachable
    THEN connect_succeeded(cs, sid, probed, closed_sess)
    ELSE connect_failed(cs, sid, probed, closed_sess)

\* The credential of a connect attempt.  key_file: the value of
\* server.get('key_file') (None, an empty string or a path); files: the
\* paths that exist; has_password: the entry has the key 'password'.
Absent == "<absent>"            \* the Python value None, where a string may stand
DefaultKey == "~/.ssh/id_rsa"

\* os.path.expanduser, on the paths of KeyFiles and on DefaultKey
expanduser(path) ==
    CASE path = "~/.ssh/id_rsa" -> "/home/u/.ssh/id_rsa"
      [] path = "~/.ssh/gpu_key" -> "/home/u/.ssh/gpu_key"
      [] OTHER -> path

Credential(key_filename, password, raises) ==
    [key_filename |-> key_filename, password |-> password, raises |-> raises]

\* variant: a configured password is offered before any key
connect_credential_password_first(key_file, files, has_password) ==
    IF has_password THEN Credential(Absent, "password", FALSE)
    ELSE IF key_file \notin {Absent, ""} /\ expanduser(key_file) \in files
    THEN Credential(expanduser(key_file), Absent, FALSE)
    ELSE IF expanduser(DefaultKey) \in files
    THEN Credential(expanduser(DefaultKey), Absent, FALSE)
    ELSE Credential(Absent, Absent, TRUE)

\* the arguments of the one ssh.connect call of an attempt; raises: the
\* entry has no 'password' and no key exists (KeyError)
connect_credential(key_file, files, has_password) ==
    IF key_file \notin {Absent, ""} /\ expanduser(key_file) \in files
    THEN Credential(expanduser(key_file), Absent, FALSE)
    ELSE IF expanduser(DefaultKey) \in files
    THEN Credential(expanduser(DefaultKey), Absent, FALSE)
    ELSE IF has_password THEN Credential(Absent, "password", FALSE)
    ELSE Credential(Absent, Absent, TRUE)

KeyFiles == {Absent, "", "~/.ssh/gpu_key", "/keys/gpu_key"}
KeyPaths == {"~/.ssh/gpu_key", "/home/u/.ssh/gpu_key", "/keys/gpu_key",
             "/home/u/.ssh/id_rsa"}

CredentialArgs ==
    { [fn |-> "connect_credential", key_file |-> k, files |-> fs,
       has_password |-> pw] :
        k \in KeyFiles, fs \in SUBSET KeyPaths, pw \in BOOLEAN }

\* server['user'] and, when no key file is found, server['password'] are
\* read while the arguments of ssh.connect are built: a missing key raises
\* KeyError inside the connect block, before anything is sent
CanConnect(server) == server.has_user /\ server.has_cred

\* alive: exec_command('true') on the cached session does not raise;
\* reachable: ssh.connect, once called, returns
get_ssh_connection(server, cs, reachable, alive) ==
    LET sid == get_server_id(server)
        cached == Get(cs.conns, sid, None)
        connects == reachable /\ CanConnect(server)
    IN IF cached # None
       THEN IF alive
            THEN reuse_cached(cs, sid)
            ELSE connect(discard_dead(cs, sid), sid, connects, TRUE, cached)
       ELSE connect(cs, sid, connects, FALSE, None)

\* ------------------------------------------------------------ one host fetch
\* How the query command behaves: it returns output, it raises, or it never
\* returns on its own.
CmdKinds == {"ok", "raise", "never"}

Transport(server) ==
    IF server.type = "slurm" THEN "ssh"
    ELSE IF IsLoopback(server) THEN "local"
    ELSE IF server.proxy THEN "proxy"
    ELSE "ssh"

FetchResult(cs, info, issued, hung, crashed, fail, r) ==
    [cs |-> cs, info |-> info, issued |-> issued, hung |-> hung,
     crashed |-> crashed, fail |-> fail, r |-> r]

NoCall(cs) == CallResult(cs, None, FALSE, FALSE, None, 0)

HasMalformed(server, output) ==
    /\ server.type # "slurm"
    /\ \E i \in 1..Len(output) : output[i].nparts < 4 \/ ~output[i].numeric

\* the command was issued and returned output
parsed(server, r, output) ==
    FetchResult(r.cs,
                IF output \in DOMAIN PolledParse[server.type]
                THEN PolledParse[server.type][output]
                ELSE Parse(server, output),
                TRUE, FALSE, FALSE,
                IF HasMalformed(server, output) THEN "parse" ELSE "none", r)

\* variant: the exception of the command leaves get_gpu_info
command_raised_uncaught(r) ==
    FetchResult(r.cs, NoDataEntry, TRUE, FALSE, TRUE, "command", r)

\* the command was issued and raised
command_raised(r) ==
    FetchResult(r.cs, ErrorEntry("command failed"), TRUE, FALSE, FALSE,
                "command", r)

\* the Slurm command is run with timeout=10: reading its output raises
slurm_command(server, r, kind, output) ==
    IF kind = "ok" THEN parsed(server, r, output)
    ELSE IF kind = "raise" THEN command_raised(r)
    ELSE FetchResult(r.cs, ErrorEntry("timed out"), TRUE, FALSE, FALSE,
                     "timeout", r)

\* the direct query is run without a timeout: the call blocks
direct_command(server, r, kind, output) ==
    IF kind = "ok" THEN parsed(server, r, output)
    ELSE IF kind = "raise" THEN command_raised(r)
    ELSE FetchResult(r.cs, NoDataEntry, TRUE, TRUE, FALSE, "hang", r)

\* ssh is None: the entry carries the recorded error
no_session(server, r) ==
    FetchResult(r.cs,
                ErrorEntry(Get(r.cs.errs, get_server_id(server),
                               "Connection failed")),
                FALSE, FALSE, FALSE, "connect", r)

\* server['host'] of the debug print (line 258) is read outside any try
get_slurm_info(server, cs, reachable, alive, kind, output) ==
    LET r == get_ssh_connection(server, cs, reachable, alive)
    IN IF ~server.has_host
       THEN FetchResult(cs, NoDataEntry, FALSE, FALSE, TRUE, "config",
                        NoCall(cs))
       ELSE IF r.exc
       THEN FetchResult(r.cs, NoDataEntry, FALSE, FALSE, TRUE, "crash", r)
       ELSE IF r.ret = None THEN no_session(server, r)
       ELSE slurm_command(server, r, kind, output)

\* a KeyError raised while the command is prepared (server['host'] at
\* line 458, server['user'] at line 474) is caught at line 523
config_error(cs, key) ==
    FetchResult(cs, ErrorEntry(key), FALSE, FALSE, FALSE, "config",
                NoCall(cs))

get_gpu_info(server, cs, reachable, alive, kind, output) ==
    IF server.type = "slurm"
    THEN get_slurm_info(server, cs, reachable, alive, kind, output)
    ELSE IF ~server.has_host THEN config_error(cs, "'host'")
    ELSE IF IsLoopback(server)
    THEN direct_command(server, NoCall(cs), kind, output)
    ELSE IF server.proxy
    THEN IF ~server.has_user THEN config_error(cs, "'user'")
         ELSE direct_command(server, NoCall(cs), kind, output)
    ELSE LET r == get_ssh_connection(server, cs, reachable, alive)
         IN IF r.exc
            THEN FetchResult(r.cs, ErrorEntry("exception"), FALSE, FALSE,
                             FALSE, "connect", r)
            ELSE IF r.ret = None THEN no_session(server, r)
            ELSE direct_command(server, r, kind, output)

\* ----------------------------------------------------------- poller thread
NullCall ==
    [idx |-> 0, sid |-> <<"", 0>>, had |-> None, probed |-> FALSE,
     ret |-> None, connects |-> 0, closed_sess |-> None, exc |-> FALSE,
     issued |-> FALSE, fail |-> "none", prev_failed |-> FALSE,
     stopped |-> FALSE, called |-> FALSE, was_alive |-> FALSE,
     reachable |-> FALSE]

ServerIds(srvs) == { get_server_id(srvs[i]) : i \in 1..Len(srvs) }

\* ids of the hosts that are queried over a persistent session
SshIds(srvs) ==
    { get_server_id(srvs[i]) :
        i \in { j \in 1..Len(srvs) : Transport(srvs[j]) = "ssh" } }

Cached(conns) == { conns[sid] : sid \in DOMAIN conns } \ {None}

initialize_connections(srvs) ==
    LET ids == { get_server_id(srvs[i]) :
                   i \in { j \in 1..Len(srvs) : ~IsLoopback(srvs[j]) } }
    IN [conns |-> [sid \in ids |-> None], errs |-> [sid \in ids |-> ErrNone]]

\* get_server_id raises KeyError for an entry without host: the exception
\* leaves run() before the loop is entered
InitializeConnections ==
    /\ pc = "start"
    /\ IF \E i \in 1..Len(servers) : ~servers[i].has_host
       THEN /\ pc' = "crashed"
            /\ UNCHANGED <<ssh_connections, connection_errors>>
       ELSE /\ ssh_connections' = initialize_connections(servers).conns
            /\ connection_errors' = initialize_connections(servers).errs
            /\ pc' = "loop"
    /\ UNCHANGED <<servers, gpu_ref, emitted, running, update_interval, idx, gpu_data,
                   sleep_dur, round, nsess, closed, call,
                   conn_failed, widgetVars, funVars, idleVars>>

\* variant: the dict of the round before is emptied and filled again
StartRound_clears_in_place ==
    /\ pc = "loop"
    /\ running
    /\ round < MaxRounds
    /\ round' = round + 1
    /\ gpu_data' = EmptyDict
    /\ gpu_ref' = IF gpu_ref = 0 THEN 1 ELSE gpu_ref
    /\ idx' = 1
    /\ call' = NullCall
    /\ pc' = IF servers = <<>> THEN "emit" ELSE "fetch"
    /\ UNCHANGED <<servers, running, update_interval, ssh_connections,
                   connection_errors, sleep_dur, nsess, closed, conn_failed,
                   emitted, widgetVars, funVars, idleVars>>

\* variant: the loop does not look at the flag
StartRound_ignores_flag ==
    /\ pc = "loop"
    /\ round < MaxRounds
    /\ round' = round + 1
    /\ gpu_data' = EmptyDict
    /\ gpu_ref' = gpu_ref + 1
    /\ idx' = 1
    /\ call' = NullCall
    /\ pc' = IF servers = <<>> THEN "emit" ELSE "fetch"
    /\ UNCHANGED <<servers, running, update_interval, ssh_connections,
                   connection_errors, sleep_dur, nsess, closed, conn_failed,
                   emitted, widgetVars, funVars, idleVars>>

\* while self.running: ... gpu_data = {}: the name is bound to a new dict
StartRound ==
    /\ pc = "loop"
    /\ running
    /\ round < MaxRounds
    /\ round' = round + 1
    /\ gpu_data' = EmptyDict
    /\ gpu_ref' = gpu_ref + 1
    /\ idx' = 1
    /\ call' = NullCall
    /\ pc' = IF servers = <<>> THEN "emit" ELSE "fetch"
    /\ UNCHANGED <<servers, running, update_interval, ssh_connections,
                   connection_errors, sleep_dur, nsess, closed, conn_failed,
                   emitted, widgetVars, funVars, idleVars>>

\* while self.running: the flag is down
LeaveLoop ==
    /\ pc = "loop"
    /\ ~running
    /\ pc' = "close"
    /\ UNCHANGED <<servers, gpu_ref, emitted, running, update_interval, ssh_connections,
                   connection_errors, idx, gpu_data, sleep_dur, round,
                   nsess, closed, call, conn_failed, widgetVars, funVars, idleVars>>

\* What the environment decides for one fetch: whether ssh.connect
\* returns, whether the probe of the cached session passes (at most
\* MaxKills cached sessions break), how the command behaves and what it
\* prints. A choice the fetch does not look at is left out.
ConnectOutcomes(server) ==
    IF Transport(server) = "ssh" THEN BOOLEAN ELSE {TRUE}

ProbeOutcomes(server) ==
    IF /\ Get(ssh_connections, get_server_id(server), None) # None
       /\ Transport(server) = "ssh"
       /\ Cardinality(closed) < MaxKills
    THEN BOOLEAN ELSE {TRUE}

CmdOutputs(server, kind) ==
    IF kind = "ok" THEN GoodOutput(server)
    ELSE IF server.type = "slurm" THEN {SlurmOutput(<<>>, <<>>)} ELSE {<<>>}

IsConnError(f) == f.fail \in {"connect", "timeout"}

\* info = self.get_gpu_info(server); gpu_data[get_server_id(server)] = info
Fetch ==
    /\ pc = "fetch"
    /\ UNCHANGED <<servers, gpu_ref, emitted, running, update_interval, sleep_dur, round,
                   widgetVars, funVars, idleVars>>
    /\ \E reachable \in ConnectOutcomes(servers[idx]),
          alive \in ProbeOutcomes(servers[idx]),
          kind \in CmdKinds :
       \E output \in CmdOutputs(servers[idx], kind) :
       \E f \in {get_gpu_info(servers[idx], ConnState, reachable, alive,
                              kind, output)} :
         LET server == servers[idx]
             sid == get_server_id(server)
         IN /\ ssh_connections' = f.cs.conns
            /\ connection_errors' = f.cs.errs
            /\ nsess' = f.cs.nsess
            /\ closed' = f.cs.closed
            /\ call' = [idx |-> idx, sid |-> sid,
                        had |-> Get(ssh_connections, sid, None),
                        probed |-> f.r.probed, ret |-> f.r.ret,
                        connects |-> f.r.connects,
                        closed_sess |-> f.r.closed_sess, exc |-> f.r.exc,
                        issued |-> f.issued, fail |-> f.fail,
                        prev_failed |-> sid \in conn_failed,
                        stopped |-> ~running,
                        called |-> Transport(server) = "ssh",
                        was_alive |-> alive,
                        reachable |-> reachable]
            /\ conn_failed' = IF IsConnError(f) THEN conn_failed \cup {sid}
                              ELSE conn_failed \ {sid}
            /\ IF f.hung THEN pc' = "hung" /\ UNCHANGED <<gpu_data, idx>>
               ELSE IF f.crashed
               THEN pc' = "crashed" /\ UNCHANGED <<gpu_data, idx>>
               ELSE /\ gpu_data' = Put(gpu_data, sid, f.info)
                    /\ idx' = idx + 1
                    /\ pc' = IF idx = Len(servers) THEN "emit" ELSE "fetch"

\* self.data_ready.emit(gpu_data)
Emit ==
    /\ pc = "emit"
    /\ pc' = "sleepcall"
    /\ call' = NullCall
    /\ emitted' = gpu_ref
    /\ UNCHANGED <<servers, gpu_ref, running, update_interval, ssh_connections,
                   connection_errors, idx, gpu_data, sleep_dur, round,
                   nsess, closed, conn_failed, widgetVars, funVars, idleVars>>

\* time.sleep(self.update_interval): the argument is read when the call is made
SleepBegin ==
    /\ pc = "sleepcall"
    /\ sleep_dur' = update_interval
    /\ pc' = "sleeping"
    /\ UNCHANGED <<servers, gpu_ref, emitted, running, update_interval, ssh_connections,
                   connection_errors, idx, gpu_data, round, nsess, closed,
                   call, conn_failed, widgetVars, funVars, idleVars>>

SleepEnd ==
    /\ pc = "sleeping"
    /\ sleep_dur' = 0
    /\ pc' = "loop"
    /\ UNCHANGED <<servers, gpu_ref, emitted, running, update_interval, ssh_connections,
                   connection_errors, idx, gpu_data, round, nsess, closed,
                   call, conn_failed, widgetVars, funVars, idleVars>>

\* variant: the cache is cleared without closing the sessions
close_all_connections_forgets(cs) ==
    [cs EXCEPT !.conns = EmptyDict, !.errs = EmptyDict]

close_all_connections(cs) ==
    [cs EXCEPT !.closed = @ \cup Cached(cs.conns),
               !.conns = EmptyDict,
               !.errs = EmptyDict]

CloseAllConnections ==
    /\ pc = "close"
    /\ ssh_connections' = close_all_connections(ConnState).conns
    /\ connection_errors' = close_all_connections(ConnState).errs
    /\ closed' = close_all_connections(ConnState).closed
    /\ pc' = "done"
    /\ UNCHANGED <<servers, gpu_ref, emitted, running, update_interval, idx, gpu_data,
                   sleep_dur, round, nsess, call, conn_failed,
                   widgetVars, funVars, idleVars>>

Worker ==
    \/ InitializeConnections \/ StartRound \/ LeaveLoop \/ Fetch
    \/ Emit \/ SleepBegin \/ SleepEnd \/ CloseAllConnections

\* ------------------------------------------------- calls from the UI thread
\* GPUWorker.stop
Stop ==
    /\ running
    /\ running' = FALSE
    /\ UNCHANGED <<servers, gpu_ref, emitted, update_interval, ssh_connections,
                   connection_errors, pc, idx, gpu_data, sleep_dur, round,
                   nsess, closed, call, conn_failed, widgetVars, funVars, idleVars>>

\* variant: a new interval restarts the sleep in progress
SetUpdateInterval_restarts_sleep(interval) ==
    /\ interval # update_interval
    /\ update_interval' = interval
    /\ sleep_dur' = IF pc = "sleeping" THEN interval ELSE sleep_dur
    /\ UNCHANGED <<servers, gpu_ref, emitted, running, ssh_connections, connection_errors,
                   pc, idx, gpu_data, round, nsess, closed,
                   call, conn_failed, widgetVars, funVars, idleVars>>

\* GPUWorker.set_update_interval
SetUpdateInterval(interval) ==
    /\ interval # update_interval
    /\ update_interval' = interval
    /\ UNCHANGED <<servers, gpu_ref, emitted, running, ssh_connections, connection_errors,
                   pc, idx, gpu_data, sleep_dur, round, nsess, closed, call, conn_failed, widgetVars, funVars, idleVars>>

\* GPUWorker.__init__, before start()
WorkerInit ==
    /\ running = TRUE
    /\ update_interval = UPDATE_INTERVAL
    /\ ssh_connections = EmptyDict
    /\ connection_errors = EmptyDict
    /\ pc = "start"
    /\ idx = 0
    /\ gpu_data = EmptyDict
    /\ sleep_dur = 0
    /\ round = 0
    /\ nsess = 0
    /\ closed = {}
    /\ call = NullCall
    /\ conn_failed = {}
    /\ gpu_ref = 0
    /\ emitted = 0

\* no widget exists, no function is being evaluated
NoWidget ==
    /\ widgets = <<>>
    /\ active_widgets = 0
    /\ started = FALSE

NoEvaluation ==
    /\ fun_in = NoArg
    /\ fun_out = NoResult

\* GPU_CONFIG = load_gpu_config(), and the globals read from it at import
LoadedConfig ==
    [update_interval |-> UPDATE_INTERVAL, idle_threshold |-> IDLE_THRESHOLD]

NoDisplay ==
    /\ GPU_CONFIG = LoadedConfig
    /\ now = 0
    /\ last_active_times = EmptyDict
    /\ display_style = "list"
    /\ idle_alert = NoAlert
    /\ delivered = NoSnapshot
    /\ seen_active = EmptyDict

Init ==
    /\ servers \in ServerLists
    /\ WorkerInit
    /\ NoWidget
    /\ NoEvaluation
    /\ NoDisplay

Next ==
    \/ Worker
    \/ Stop
    \/ \E interval \in IntervalChoices : SetUpdateInterval(interval)

Spec == Init /\ [][Next]_vars

\* The poller runs on a thread of its own: a step it can take is taken.
FairSpec == Spec /\ WF_vars(Worker)

\* ------------------------------------------------------------ widget layer
\* A GPUMonitor instance: visible = the window is shown; monitoring = its
\* monitoring flag; worker_running = the running flag of its GPUWorker;
\* worker_alive = the thread of its GPUWorker has not left run();
\* update_interval = the update_interval of its GPUWorker.
GPUMonitor ==
    [visible |-> TRUE, monitoring |-> TRUE, worker_running |-> TRUE,
     worker_alive |-> TRUE, update_interval |-> UPDATE_INTERVAL]

\* WidgetManager._start_widget('gpu_monitor')
start_widget(ws) == Append(ws, GPUMonitor)

\* WidgitronMainWindow.__init__ -> WidgetManager.auto_start_widgets;
\* auto_start: the value of the configuration (TRUE when there is no file)
AutoStartWidgets(auto_start) ==
    /\ ~started
    /\ started' = TRUE
    /\ IF auto_start
       THEN /\ widgets' = start_widget(widgets)
            /\ active_widgets' = Len(widgets) + 1
       ELSE UNCHANGED <<widgets, active_widgets>>
    /\ UNCHANGED <<workerVars, funVars, idleVars>>

\* WidgetManager.toggle_widget on an active widget: QWidget.close(), del
ToggleOff ==
    /\ started
    /\ active_widgets # 0
    /\ widgets' = [widgets EXCEPT ![active_widgets].visible = FALSE]
    /\ active_widgets' = 0
    /\ UNCHANGED <<started, workerVars, funVars, idleVars>>

\* WidgetManager.toggle_widget with no active widget: _start_widget
ToggleOn ==
    /\ started
    /\ active_widgets = 0
    /\ Len(widgets) < MaxWidgets
    /\ widgets' = start_widget(widgets)
    /\ active_widgets' = Len(widgets) + 1
    /\ UNCHANGED <<started, workerVars, funVars, idleVars>>

\* GPUMonitor.close_widget, connected to the close button of the widget
CloseWidget(i) ==
    /\ widgets[i].visible
    /\ widgets' = [widgets EXCEPT ![i].monitoring = FALSE,
                                  ![i].worker_running = FALSE,
                                  ![i].visible = FALSE]
    /\ UNCHANGED <<active_widgets, started, workerVars, funVars, idleVars>>

\* GPUWorker.run of instance i finds the flag down and returns
WorkerReturns(i) ==
    /\ widgets[i].worker_alive
    /\ ~widgets[i].worker_running
    /\ widgets' = [widgets EXCEPT ![i].worker_alive = FALSE]
    /\ UNCHANGED <<active_widgets, started, workerVars, funVars, idleVars>>

\* auto_save_settings with the interval combo: the new interval is written
\* to the configuration file and to GPU_CONFIG, and set_update_interval is
\* called on the worker of every instance in GPUMonitor.active_instances
SaveUpdateInterval(interval) ==
    /\ started
    /\ interval # GPU_CONFIG.update_interval
    /\ GPU_CONFIG' = [GPU_CONFIG EXCEPT !.update_interval = interval]
    /\ widgets' = [i \in 1..Len(widgets) |->
                     [widgets[i] EXCEPT !.update_interval = interval]]
    /\ UNCHANGED <<active_widgets, started, now, last_active_times,
                   display_style, idle_alert, delivered, seen_active,
                   workerVars, funVars>>

InitWidgets ==
    /\ Init
    /\ servers = Pick(1..MaxServers, 1)

NextWidgets ==
    \/ \E auto_start \in BOOLEAN : AutoStartWidgets(auto_start)
    \/ ToggleOff
    \/ ToggleOn
    \/ \E i \in 1..Len(widgets) : CloseWidget(i)
    \/ \E i \in 1..Len(widgets) : WorkerReturns(i)
    \/ \E interval \in IntervalChoices : SaveUpdateInterval(interval)

WidgetSpec == InitWidgets /\ [][NextWidgets]_vars

\* the pollers whose loop is running and has not been told to stop
RunningPollers ==
    { i \in 1..Len(widgets) :
        widgets[i].worker_alive /\ widgets[i].worker_running }

\* ------------------------------------------------- display and idle alert
\* A GPUMonitor showing a direct host and a Slurm head node.
IdleServers == << Server("gpu1", "direct", FALSE), Server("hpc", "slurm", FALSE) >>

\* the entries a round can publish for a host: busy, idle, or an error
EntryChoices(server) ==
    IF server.type = "slurm"
    THEN { ParseSlurm(SlurmOutput(<<PartLine(TRUE, "gpu", "UP")>>,
             <<NodeLine(TRUE, "node1", <<"gpu">>, GresTyped, NoToken, alloc)>>)) :
             alloc \in {NoToken, TresGpu} }
         \cup {ErrorEntry("timed out")}
    ELSE { ParseDirect(<<BusyLine>>), ParseDirect(<<IdleLine>>),
           ParseDirect(<<>>), ErrorEntry("Unable to connect") }

Snapshots(srvs) ==
    { g \in [ServerIds(srvs) -> UNION { EntryChoices(srvs[i]) : i \in 1..Len(srvs) }] :
        \A i \in 1..Len(srvs) : g[get_server_id(srvs[i])] \in EntryChoices(srvs[i]) }

\* the snapshots the poller of the GPUMonitor can deliver
IdleSnapshots == Snapshots(IdleServers)

\* variant: "Utilization: 0%" counts as activity too
list_shows_activity_from_zero(data) ==
    \E k \in 1..Len(data.gpu_info) :
       data.gpu_info[k].tag = "GPU" /\ data.gpu_info[k].n \in 0..100

\* 'Utilization:' in gpu_info and any(f'Utilization: {i}%' in gpu_info
\* for i in range(1, 101)): a "GPU" fragment prints "Utilization: <n>%"
list_shows_activity(data) ==
    \E k \in 1..Len(data.gpu_info) :
       data.gpu_info[k].tag = "GPU" /\ data.gpu_info[k].n \in 1..100

\* gpu_list and any(gpu['util'] > 0 for gpu in gpu_list)
compact_shows_activity(data) ==
    \E k \in 1..Len(data.gpu_list) : data.gpu_list[k].util > 0

\* _update_list_display: the ids whose last active time is set
update_list_display(snapshot, labels) ==
    { host \in DOMAIN snapshot \cap labels : list_shows_activity(snapshot[host]) }

\* _update_compact_display: the ids whose last active time is set
update_compact_display(snapshot, containers) ==
    { host \in DOMAIN snapshot \cap containers :
        compact_shows_activity(snapshot[host]) }

\* the device list of the entry has a device with utilization > 0
HasBusyDevice(data) ==
    \E k \in 1..Len(data.gpu_list) : data.gpu_list[k].util > 0

\* GPUMonitor.update_gpu_display, the slot of data_ready; the snapshot of
\* a poller that was told to stop is its last one
UpdateGpuDisplay(snapshot) ==
    /\ last_active_times # EmptyDict
    /\ widgets[1].worker_alive
    /\ widgets' = [widgets EXCEPT ![1].worker_alive = widgets[1].worker_running]
    /\ LET reset == IF display_style = "compact"
                    THEN update_compact_display(snapshot, ServerIds(servers))
                    ELSE update_list_display(snapshot, ServerIds(servers))
       IN last_active_times' =
            [host \in DOMAIN last_active_times \cup reset |->
               IF host \in reset THEN now ELSE last_active_times[host]]
    /\ delivered' = [at |-> now, data |-> snapshot]
    /\ seen_active' = [host \in DOMAIN seen_active |->
                         IF host \in DOMAIN snapshot /\ HasBusyDevice(snapshot[host])
                         THEN now ELSE seen_active[host]]
    /\ UNCHANGED <<now, display_style, idle_alert, GPU_CONFIG, active_widgets,
                   started, workerVars, funVars>>

\* variant: a host is idle from the threshold on
idle_servers_at_threshold(times, current_time) ==
    { host \in DOMAIN times : current_time - times[host] >= IDLE_THRESHOLD }

\* the list comprehension of check_idle
idle_servers(times, current_time) ==
    { host \in DOMAIN times : current_time - times[host] > IDLE_THRESHOLD }

\* GPUMonitor.check_idle, the slot of idle_timer; notified: the calls of
\* notification.notify, hosts: the hosts its message names
CheckIdle ==
    /\ last_active_times # EmptyDict
    /\ LET idle == idle_servers(last_active_times, now)
       IN idle_alert' = [checked |-> TRUE, at |-> now,
                         notified |-> IF idle # {} THEN 1 ELSE 0,
                         hosts |-> idle]
    /\ UNCHANGED <<now, last_active_times, display_style, delivered,
                   seen_active, GPU_CONFIG, workerVars, widgetVars, funVars>>

\* auto_save_settings with a new display style: _create_display_ui
SetDisplayStyle(style) ==
    /\ last_active_times # EmptyDict
    /\ style # display_style
    /\ display_style' = style
    /\ UNCHANGED <<now, last_active_times, idle_alert, delivered, seen_active,
                   GPU_CONFIG, workerVars, widgetVars, funVars>>

\* the thresholds the idle combo offers, in ticks
IdleChoices == {1, 2}

\* auto_save_settings with the idle combo: the new threshold is written to
\* the configuration file and to GPU_CONFIG
SetIdleThreshold(threshold) ==
    /\ last_active_times # EmptyDict
    /\ threshold # GPU_CONFIG.idle_threshold
    /\ GPU_CONFIG' = [GPU_CONFIG EXCEPT !.idle_threshold = threshold]
    /\ UNCHANGED <<now, last_active_times, display_style, idle_alert,
                   delivered, seen_active, workerVars, widgetVars, funVars>>

\* time passes
Tick ==
    /\ last_active_times # EmptyDict
    /\ now < MaxTime
    /\ now' = now + 1
    /\ UNCHANGED <<last_active_times, display_style, idle_alert, delivered,
                   seen_active, GPU_CONFIG, workerVars, widgetVars, funVars>>

\* GPUMonitor.__init__ at time 0, called by _start_widget
InitIdle ==
    /\ servers = IdleServers
    /\ WorkerInit
    /\ widgets = start_widget(<<>>)
    /\ active_widgets = 1
    /\ started = TRUE
    /\ NoEvaluation
    /\ GPU_CONFIG = LoadedConfig
    /\ now = 0
    /\ display_style \in {"list", "compact"}
    /\ last_active_times = [host \in ServerIds(servers) |-> 0]
    /\ seen_active = [host \in ServerIds(servers) |-> 0]
    /\ idle_alert = NoAlert
    /\ delivered = NoSnapshot

NextIdle ==
    \/ \E snapshot \in IdleSnapshots : UpdateGpuDisplay(snapshot)
    \/ CheckIdle
    \/ \E style \in {"list", "compact"} : SetDisplayStyle(style)
    \/ Tick
    \/ \E threshold \in IdleChoices : SetIdleThreshold(threshold)
    \/ CloseWidget(1)
    \/ WorkerReturns(1)

IdleSpec == InitIdle /\ [][NextIdle]_vars

\* ------------------------------------------- pollers of other host lists
\* A configuration file with entries the fleet of Spec does not have: an
\* entry without user, an entry without host, a Slurm head node on the
\* local machine, a Slurm head node behind a jump proxy, and a second entry
\* with the id of gpu1.
ConfigPool ==
    << Server("gpu1", "direct", FALSE),
       Lacking(Server("gpu3", "direct", FALSE), "has_user"),
       Lacking(Server("gpu4", "direct", FALSE), "has_host"),
       Server("localhost", "slurm", FALSE),
       Server("hpc2", "slurm", TRUE),
       Server("gpu1", "slurm", FALSE) >>

RECURSIVE PickFrom(_, _, _)
PickFrom(pool, picks, k) ==
    IF k > Len(pool) THEN <<>>
    ELSE (IF k \in picks THEN <<pool[k]>> ELSE <<>>)
         \o PickFrom(pool, picks, k + 1)

ConfigLists ==
    { PickFrom(ConfigPool, picks, 1) :
        picks \in { q \in SUBSET (1..Len(ConfigPool)) :
                      Cardinality(q) <= MaxServers } }

InitConfig ==
    /\ servers \in ConfigLists
    /\ WorkerInit
    /\ NoWidget
    /\ NoEvaluation
    /\ NoDisplay

ConfigSpec == InitConfig /\ [][Next]_vars

\* the entry lacks a field the spec requires
Incomplete(server) ==
    ~server.has_host \/ ~server.has_user \/ ~server.has_cred

\* ------------------------------------------------------ simplify_gpu_name
\* A name is the sequence of its characters.  gpu_mappings: the pairs
\* <<key, value>> of the mapping table, in the order of the dict.
gpu_mappings ==
    <<
       <<<<"A", "1", "0", "0">>,
         <<"A", "1", "0", "0">>>>,
       <<<<"A", "8", "0", "0">>,
         <<"A", "8", "0", "0">>>>,
       <<<<"A", "6", "0", "0", "0">>,
         <<"A", "6", "0", "0", "0">>>>,
       <<<<"A", "4", "0">>,
         <<"A", "4", "0">>>>,
       <<<<"H", "1", "0", "0">>,
         <<"H", "1", "0", "0">>>>,
       <<<<"H", "2", "0", "0">>,
         <<"H", "2", "0", "0">>>>,
       <<<<"L", "4", "0">>,
         <<"L", "4", "0">>>>,
       <<<<"L", "4", "0", "S">>,
         <<"L", "4", "0", "S">>>>,
       <<<<"L", "4">>,
         <<"L", "4">>>>,
       <<<<"T", "4">>,
         <<"T", "4">>>>,
       <<<<"V", "1", "0", "0">>,
         <<"V", "1", "0", "0">>>>,
       <<<<"P", "1", "0", "0">>,
         <<"P", "1", "0", "0">>>>,
       <<<<"P", "4", "0">>,
         <<"P", "4", "0">>>>,
       <<<<"R", "T", "X", " ", "6", "0", "0", "0">>,
         <<"R", "T", "X", " ", "6", "0", "0", "0">>>>,
       <<<<"R", "T", "X", " ", "5", "8", "8", "0">>,
         <<"R", "T", "X", " ", "5", "8", "8", "0">>>>,
       <<<<"R", "T", "X", " ", "5", "0", "0", "0">>,
         <<"R", "T", "X", " ", "5", "0", "0", "0">>>>,
       <<<<"R", "T", "X", " ", "4", "8", "8", "0">>,
         <<"R", "T", "X", " ", "4", "8", "8", "0">>>>,
       <<<<"R", "T", "X", " ", "4", "0", "0", "0">>,
         <<"R", "T", "X", " ", "4", "0", "0", "0">>>>,
       <<<<"R", "T", "X", " ", "5", "0", "7", "0", " ", "T", "i">>,
         <<"R", "T", "X", " ", "5", "0", "7", "0", "T", "i">>>>,
       <<<<"R", "T", "X", " ", "5", "0", "7", "0">>,
         <<"R", "T", "X", " ", "5", "0", "7", "0">>>>,
       <<<<"R", "T", "X", " ", "5", "0", "0", "0", " ", "A", "d", "a">>,
         <<"R", "T", "X", " ", "5", "0", "0", "0", "A">>>>,
       <<<<"R", "T", "X", " ", "4", "0", "0", "0", " ", "S", "F", "F", " ", "A", "d", "a">>,
         <<"R", "T", "X", " ", "4", "0", "0", "0", "A">>>>,
       <<<<"R", "T", "X", " ", "4", "5", "0", "0">>,
         <<"R", "T", "X", " ", "4", "5", "0", "0">>>>,
       <<<<"R", "T", "X", " ", "4", "5", "0", "0", " ", "A", "d", "a">>,
         <<"R", "T", "X", " ", "4", "5", "0", "0", "A">>>>,
       <<<<"R", "T", "X", " ", "4", "0", "9", "0">>,
         <<"R", "T", "X", " ", "4", "0", "9", "0">>>>,
       <<<<"R", "T", "X", " ", "4", "0", "8", "0">>,
         <<"R", "T", "X", " ", "4", "0", "8", "0">>>>,
       <<<<"R", "T", "X", " ", "4", "0", "7", "0", " ", "T", "i">>,
         <<"R", "T", "X", " ", "4", "0", "7", "0", "T", "i">>>>,
       <<<<"R", "T", "X", " ", "4", "0", "7", "0">>,
         <<"R", "T", "X", " ", "4", "0", "7", "0">>>>,
       <<<<"R", "T", "X", " ", "4", "0", "6", "0", " ", "T", "i">>,
         <<"R", "T", "X", " ", "4", "0", "6", "0", "T", "i">>>>,
       <<<<"R", "T", "X", " ", "4", "0", "6", "0">>,
         <<"R", "T", "X", " ", "4", "0", "6", "0">>>>,
       <<<<"R", "T", "X", " ", "3", "0", "9", "0", " ", "T", "i">>,
         <<"R", "T", "X", " ", "3", "0", "9", "0", "T", "i">>>>,
       <<<<"R", "T", "X", " ", "3", "0", "9", "0">>,
         <<"R", "T", "X", " ", "3", "0", "9", "0">>>>,
       <<<<"R", "T", "X", " ", "3", "0", "8", "0", " ", "T", "i">>,
         <<"R", "T", "X", " ", "3", "0", "8", "0", "T", "i">>>>,
       <<<<"R", "T", "X", " ", "3", "0", "8", "0">>,
         <<"R", "T", "X", " ", "3", "0", "8", "0">>>>,
       <<<<"R", "T", "X", " ", "3", "0", "7", "0", " ", "T", "i">>,
         <<"R", "T", "X", " ", "3", "0", "7", "0", "T", "i">>>>,
       <<<<"R", "T", "X", " ", "3", "0", "7", "0">>,
         <<"R", "T", "X", " ", "3", "0", "7", "0">>>>,
       <<<<"R", "T", "X", " ", "3", "0", "6", "0", " ", "T", "i">>,
         <<"R", "T", "X", " ", "3", "0", "6", "0", "T", "i">>>>,
       <<<<"R", "T", "X", " ", "3", "0", "6", "0">>,
         <<"R", "T", "X", " ", "3", "0", "6", "0">>>>,
       <<<<"R", "T", "X", " ", "2", "0", "8", "0", " ", "T", "i">>,
         <<"R", "T", "X", " ", "2", "0", "8", "0", "T", "i">>>>,
       <<<<"R", "T", "X", " ", "2", "0", "8", "0">>,
         <<"R", "T", "X", " ", "2", "0", "8", "0">>>>,
       <<<<"R", "T", "X", " ", "2", "0", "7", "0">>,
         <<"R", "T", "X", " ", "2", "0", "7", "0">>>>,
       <<<<"M", "I", "3", "0", "0", "X">>,
         <<"M", "I", "3", "0", "0", "X">>>>,
       <<<<"M", "I", "3", "0", "0">>,
         <<"M", "I", "3", "0", "0">>>>,
       <<<<"M", "I", "2", "5", "0", "X">>,
         <<"M", "I", "2", "5", "0", "X">>>>,
       <<<<"M", "I", "2", "5", "0">>,
         <<"M", "I", "2", "5", "0">>>>,
       <<<<"M", "I", "2", "1", "0">>,
         <<"M", "I", "2", "1", "0">>>>,
       <<<<"M", "I", "1", "0", "0">>,
         <<"M", "I", "1", "0", "0">>>>,
       <<<<"M", "I", "5", "0">>,
         <<"M", "I", "5", "0">>>>,
       <<<<"M", "I", "2", "5">>,
         <<"M", "I", "2", "5">>>>,
       <<<<"R", "X", " ", "7", "9", "0", "0", " ", "X", "T", "X">>,
         <<"R", "X", " ", "7", "9", "0", "0", "X", "T", "X">>>>,
       <<<<"R", "X", " ", "7", "9", "0", "0", " ", "X", "T">>,
         <<"R", "X", " ", "7", "9", "0", "0", "X", "T">>>>,
       <<<<"R", "X", " ", "7", "9", "0", "0">>,
         <<"R", "X", " ", "7", "9", "0", "0">>>>,
       <<<<"R", "X", " ", "6", "9", "0", "0", " ", "X", "T">>,
         <<"R", "X", " ", "6", "9", "0", "0", "X", "T">>>>,
       <<<<"R", "X", " ", "6", "8", "0", "0", " ", "X", "T">>,
         <<"R", "X", " ", "6", "8", "0", "0", "X", "T">>>>,
       <<<<"R", "X", " ", "6", "7", "0", "0", " ", "X", "T">>,
         <<"R", "X", " ", "6", "7", "0", "0", "X", "T">>>>,
       <<<<"A", "r", "c", " ", "A", "7", "7", "0">>,
         <<"A", "r", "c", " ", "A", "7", "7", "0">>>>,
       <<<<"A", "r", "c", " ", "A", "7", "5", "0">>,
         <<"A", "r", "c", " ", "A", "7", "5", "0">>>>,
       <<<<"A", "r", "c", " ", "A", "3", "8", "0">>,
         <<"A", "r", "c", " ", "A", "3", "8", "0">>>>,
       <<<<"D", "a", "t", "a", " ", "C", "e", "n", "t", "e", "r", " ", "G", "P", "U", " ", "F", "l", "e", "x", " ", "1", "7", "0">>,
         <<"G", "P", "U", " ", "F", "l", "e", "x", "1", "7", "0">>>>,
       <<<<"D", "a", "t", "a", " ", "C", "e", "n", "t", "e", "r", " ", "G", "P", "U", " ", "F", "l", "e", "x", " ", "1", "4", "0">>,
         <<"G", "P", "U", " ", "F", "l", "e", "x", "1", "4", "0">>>>,
       <<<<"T", "e", "s", "l", "a", " ", "M", "4", "0">>,
         <<"M", "4", "0">>>>,
       <<<<"T", "e", "s", "l", "a", " ", "M", "1", "0">>,
         <<"M", "1", "0">>>>,
       <<<<"T", "e", "s", "l", "a", " ", "K", "4", "0">>,
         <<"K", "4", "0">>>>,
       <<<<"T", "e", "s", "l", "a", " ", "K", "2", "0">>,
         <<"K", "2", "0">>>> >>

IsSpace(c) == c \in {" ", "\t", "\n"}

\* str.strip()
RECURSIVE lstrip(_)
lstrip(s) ==
    IF s # <<>> /\ IsSpace(Head(s)) THEN lstrip(Tail(s)) ELSE s

RECURSIVE rstrip(_)
rstrip(s) ==
    IF s # <<>> /\ IsSpace(s[Len(s)]) THEN rstrip(SubSeq(s, 1, Len(s) - 1))
    ELSE s

strip(s) == rstrip(lstrip(s))

\* for key, value in gpu_mappings.items(): if key in name: return value
\* (0: no key is in the name)
RECURSIVE first_mapping(_, _)
first_mapping(name, k) ==
    IF k > Len(gpu_mappings) THEN 0
    ELSE IF Contains(name, gpu_mappings[k][1]) THEN k
    ELSE first_mapping(name, k + 1)

\* name.startswith(prefix)
startswith(name, prefix) ==
    Len(name) >= Len(prefix) /\ SubSeq(name, 1, Len(prefix)) = prefix

prefixes ==
    << <<"N", "V", "I", "D", "I", "A", " ">>, <<"T", "e", "s", "l", "a", " ">>,
       <<"A", "M", "D", " ">>, <<"I", "n", "t", "e", "l", " ">> >>

\* the first prefix the name starts with is cut off, and the rest stripped
RECURSIVE remove_prefix(_, _)
remove_prefix(name, k) ==
    IF k > Len(prefixes) THEN name
    ELSE IF startswith(name, prefixes[k])
         THEN strip(SubSeq(name, Len(prefixes[k]) + 1, Len(name)))
         ELSE remove_prefix(name, k + 1)

\* str.split(): the maximal runs of characters that are not whitespace
RECURSIVE split(_, _)
split(s, word) ==
    IF s = <<>> THEN (IF word = <<>> THEN <<>> ELSE <<word>>)
    ELSE IF IsSpace(Head(s))
         THEN (IF word = <<>> THEN <<>> ELSE <<word>>) \o split(Tail(s), <<>>)
         ELSE split(Tail(s), Append(word, Head(s)))

UpperCase == <<"A", "B", "C", "D", "E", "F", "G", "H", "I", "J", "K", "L", "M",
               "N", "O", "P", "Q", "R", "S", "T", "U", "V", "W", "X", "Y", "Z">>
LowerCase == <<"a", "b", "c", "d", "e", "f", "g", "h", "i", "j", "k", "l", "m",
               "n", "o", "p", "q", "r", "s", "t", "u", "v", "w", "x", "y", "z">>

\* str.lower()
lower(s) ==
    [i \in 1..Len(s) |->
       IF \E j \in 1..Len(UpperCase) : UpperCase[j] = s[i]
       THEN LowerCase[CHOOSE j \in 1..Len(UpperCase) : UpperCase[j] = s[i]]
       ELSE s[i]]

\* ' '.join(parts)
RECURSIVE join(_)
join(parts) ==
    IF parts = <<>> THEN <<>>
    ELSE IF Len(parts) = 1 THEN parts[1]
    ELSE parts[1] \o <<" ">> \o join(Tail(parts))

\* variant: every part of the name is kept
first_two_parts_keeps_all(parts) ==
    IF Len(parts) > 1 THEN join(parts)
    ELSE IF parts # <<>> THEN parts[1]
    ELSE <<"U", "n", "k", "n", "o", "w", "n">>

\* ' '.join(parts[:2]) if len(parts) > 1 else (parts[0] if parts else "Unknown")
first_two_parts(parts) ==
    IF Len(parts) > 1 THEN join(SubSeq(parts, 1, 2))
    ELSE IF parts # <<>> THEN parts[1]
    ELSE <<"U", "n", "k", "n", "o", "w", "n">>

simplify_gpu_name(raw) ==
    LET name == strip(raw)
        k == first_mapping(name, 1)
        parts == split(remove_prefix(name, 1), <<>>)
    IN IF k # 0 THEN gpu_mappings[k][2]
       ELSE IF Len(parts) >= 2
               /\ lower(parts[1]) \in { <<"g", "e", "f", "o", "r", "c", "e">>,
                                        <<"r", "a", "d", "e", "o", "n">> }
            THEN join(SubSeq(parts, 2, IF Len(parts) < 3 THEN Len(parts) ELSE 3))
            ELSE first_two_parts(parts)

\* device names as nvidia-smi and scontrol report them, and other strings
GpuNames ==
    { <<"N", "V", "I", "D", "I", "A", " ", "G", "e", "F", "o", "r", "c", "e", " ", "R", "T", "X", " ", "3", "0", "8", "0">>,
      <<"W", "e", "i", "r", "d", " ", "V", "e", "n", "d", "o", "r", " ", "C", "a", "r", "d", " ", "X", "1">>,
      <<" ", " ", "N", "V", "I", "D", "I", "A", " ", "G", "e", "F", "o", "r", "c", "e", " ", "R", "T", "X", " ", "3", "0", "8", "0", " ">>,
      <<"N", "V", "I", "D", "I", "A", " ", "A", "1", "0", "0", "-", "S", "X", "M", "4", "-", "4", "0", "G", "B">>,
      <<"N", "V", "I", "D", "I", "A", " ", "L", "4", "0", "S">>,
      <<"N", "V", "I", "D", "I", "A", " ", "R", "T", "X", " ", "5", "0", "0", "0", " ", "A", "d", "a", " ", "G", "e", "n", "e", "r", "a", "t", "i", "o", "n">>,
      <<"T", "e", "s", "l", "a", " ", "V", "1", "0", "0", "-", "S", "X", "M", "2", "-", "1", "6", "G", "B">>,
      <<"N", "V", "I", "D", "I", "A", " ", "G", "e", "F", "o", "r", "c", "e", " ", "G", "T", "X", " ", "1", "0", "8", "0", " ", "T", "i">>,
      <<"A", "M", "D", " ", "R", "a", "d", "e", "o", "n", " ", "P", "r", "o", " ", "W", "6", "8", "0", "0">>,
      <<"N", "V", "I", "D", "I", "A", " ", "G", "e", "F", "o", "r", "c", "e">>,
      <<"Q", "u", "a", "d", "r", "o">>,
      <<>>,
      <<"I", "n", "t", "e", "l", " ", "U", "H", "D", " ", "G", "r", "a", "p", "h", "i", "c", "s", " ", "7", "7", "0">>,
      <<"g", "e", "f", "o", "r", "c", "e", " ", "g", "t", "x", " ", "1", "6", "5", "0">> }

SimplifyArgs == { [fn |-> "simplify_gpu_name", name |-> n] : n \in GpuNames }

EvalConnectCredential ==
    /\ fun_in.fn = "connect_credential"
    /\ ~fun_out.done
    /\ fun_out' = [done |-> TRUE,
                   cred |-> connect_credential(fun_in.key_file, fun_in.files,
                                               fun_in.has_password)]
    /\ UNCHANGED <<fun_in, workerVars, widgetVars, idleVars>>

EvalSimplifyGpuName ==
    /\ fun_in.fn = "simplify_gpu_name"
    /\ ~fun_out.done
    /\ fun_out' = [done |-> TRUE, name |-> simplify_gpu_name(fun_in.name)]
    /\ UNCHANGED <<fun_in, workerVars, widgetVars, idleVars>>

\* ------------------------------------------- one call, any configuration
\* get_gpu_info evaluated on its own: any host entry, with or without a
\* cached session, any behaviour of the connection and of the command, and
\* any output made of the lines below.
LineKinds == {BusyLine, IdleLine, ShortLine, NonNumLine}

AllDirectOutputs == UNION { [1..n -> LineKinds] : n \in 0..MaxLines }

PartStates == {"UP", "DRAIN", "DRAINED", "INACTIVE", "DOWN", "UNKNOWN"}

AllPartOutputs ==
    { <<PartLine(TRUE, "gpu", s1), PartLine(TRUE, "long", s2)>> :
        s1 \in {"UP", "DRAIN"}, s2 \in PartStates }
    \cup { <<>>, <<PartLine(FALSE, "", "UP"), PartLine(TRUE, "gpu", "UP")>> }

AllNodeOutputs ==
    LET first == { NodeLine(TRUE, "node1", ps, gres, cfg, alloc) :
                     ps \in {<<>>, <<"gpu">>, <<"gpu", "long">>, <<"debug">>},
                     gres \in {NoToken, GresNull, GresCount, GresTyped,
                               GresSockets, GresShared},
                     cfg \in {NoToken, TresNoGpu, TresGpu},
                     alloc \in {NoToken, TresGpu, TresMany} }
        second == NodeLine(TRUE, "node2", <<"long">>, GresOne, NoToken, TresGpu)
    IN { <<n>> : n \in first } \cup { <<second, n>> : n \in first }

AllSlurmOutputs ==
    { SlurmOutput(ps, ns) : ps \in AllPartOutputs, ns \in AllNodeOutputs }

\* host entries of every mode and transport, complete and incomplete
AllServers ==
    LET gpu1 == Server("gpu1", "direct", FALSE)
        gpu2 == Server("gpu2", "direct", TRUE)
        hpc  == Server("hpc", "slurm", FALSE)
    IN { gpu1, gpu2, hpc,
         Server("localhost", "direct", FALSE),
         Server("localhost", "slurm", FALSE),
         Server("hpc2", "slurm", TRUE),
         Lacking(gpu1, "has_user"), Lacking(gpu1, "has_cred"),
         Lacking(gpu1, "has_host"), Lacking(gpu2, "has_user"),
         Lacking(hpc, "has_host"), Lacking(hpc, "has_user") }

\* the session cache before the call: nothing cached, or session 1 cached
CacheStates(server) ==
    LET sid == get_server_id(server)
    IN { [conns |-> Put(EmptyDict, sid, None),
          errs |-> Put(EmptyDict, sid, ErrNone), nsess |-> 0, closed |-> {}],
         [conns |-> Put(EmptyDict, sid, 1),
          errs |-> Put(EmptyDict, sid, ErrNone), nsess |-> 1, closed |-> {}] }

AllOutputs(server, kind) ==
    IF kind # "ok" THEN CmdOutputs(server, kind)
    ELSE IF server.type = "slurm" THEN AllSlurmOutputs ELSE AllDirectOutputs

GetGpuInfoArgs ==
    { [fn |-> "get_gpu_info", server |-> a[1], cs |-> a[2],
       reachable |-> a[3], alive |-> a[4], kind |-> a[5], output |-> a[6]] :
        a \in UNION { UNION { {s} \X CacheStates(s) \X BOOLEAN \X BOOLEAN
                                \X {kind} \X AllOutputs(s, kind) :
                                kind \in CmdKinds } :
                      s \in AllServers } }

EvalGetGpuInfo ==
    /\ fun_in.fn = "get_gpu_info"
    /\ ~fun_out.done
    /\ fun_out' = [done |-> TRUE,
                   f |-> get_gpu_info(fun_in.server, fun_in.cs,
                                      fun_in.reachable, fun_in.alive,
                                      fun_in.kind, fun_in.output)]
    /\ UNCHANGED <<fun_in, workerVars, widgetVars, idleVars>>

FunArgs == GetGpuInfoArgs \cup SimplifyArgs \cup CredentialArgs

InitFun ==
    /\ servers = <<>>
    /\ WorkerInit
    /\ NoWidget
    /\ NoDisplay
    /\ fun_in \in FunArgs
    /\ fun_out = NoResult

NextFun ==
    \/ EvalGetGpuInfo
    \/ EvalSimplifyGpuName
    \/ EvalConnectCredential

FunSpec == InitFun /\ [][NextFun]_vars

\* the call returned a host entry (it neither blocked nor raised)
Returned == fun_out.done /\ fun_in.fn = "get_gpu_info"
            /\ ~fun_out.f.hung /\ ~fun_out.f.crashed

\* ================================================================ claims
\* a step that is one get_gpu_info call of the round
FetchStep == call' # call /\ call'.idx # 0

SameAt(f, g, k) ==
    /\ (k \in DOMAIN f) = (k \in DOMAIN g)
    /\ (k \in DOMAIN f => f[k] = g[k])

C2_BoundedStall == pc # "hung"

\* C3: a cached session is probed; a live one is returned as it is and
\* nothing is connected; a dead one is closed and discarded and one connect
\* attempt follows in the same call; without a cached session there is one
\* connect attempt.
C3_SessionReuse ==
    call.called =>
      /\ (call.probed <=> call.had # None)
      /\ (call.had # None /\ call.was_alive
            => /\ call.ret = call.had
               /\ call.connects = 0
               /\ call.closed_sess = None
               /\ call.had \notin closed
               /\ nsess >= call.had)
      /\ (call.had # None /\ ~call.was_alive
            => /\ call.closed_sess = call.had
               /\ call.had \in closed
               /\ Get(ssh_connections, call.sid, None) # call.had
               /\ call.ret # call.had
               /\ call.connects = 1)
      /\ (call.had = None => call.connects = 1 /\ call.closed_sess = None)

\* a dead cached session was replaced by a new one within one call
C3_Witness ==
    /\ call.called
    /\ call.had # None
    /\ ~call.was_alive
    /\ call.connects = 1
    /\ call.ret # None

\* C4: with the cached session broken and the host still unreachable the
\* call returns no session and records an error; a call made when the host
\* accepts connections again returns a session, in the same poller run.
C4_FailureThenRecovery ==
    call.called =>
      /\ ((call.had = None \/ ~call.was_alive) /\ ~call.reachable
            => /\ call.ret = None
               /\ Get(connection_errors, call.sid, ErrNone) # ErrNone)
      /\ (call.reachable
            => /\ call.ret # None
               /\ Get(ssh_connections, call.sid, None) = call.ret
               /\ Get(connection_errors, call.sid, ErrNone) = ErrNone)

\* the only host lost its session, the next call failed, and this call
\* connected again
C4_Witness ==
    /\ Len(servers) = 1
    /\ servers[1].type = "direct"
    /\ call.called
    /\ closed # {}
    /\ call.prev_failed
    /\ call.ret # None
    /\ call.connects = 1

C6_FreshConnectAfterError ==
    /\ (call.fail \in {"connect", "timeout"}
          => /\ call.sid \in DOMAIN gpu_data
             /\ IsErrorEntry(gpu_data[call.sid]))
    /\ (call.called /\ call.prev_failed => call.connects = 1)

\* C7: once stop() has been called no further command is issued.
C7_NoCommandAfterStop == ~(call.issued /\ call.stopped)

\* C8: set_update_interval changes nothing of the round in flight nor the
\* sleep in progress; a sleep lasts what it started with, and it starts
\* with the interval set last.
C8_IntervalAtBoundary ==
    /\ [][update_interval' # update_interval
            => UNCHANGED <<pc, idx, gpu_data, sleep_dur, round, call,
                           ssh_connections, connection_errors, nsess,
                           closed, running>>]_vars
    /\ [][pc # "sleeping" /\ pc' = "sleeping"
            => sleep_dur' = update_interval]_vars
    /\ [][pc = "sleeping" /\ pc' = "sleeping"
            => sleep_dur' = sleep_dur]_vars

\* a sleep that began with a changed interval goes on unchanged after the
\* interval was set back
C8_Witness ==
    /\ pc = "sleeping"
    /\ sleep_dur # UPDATE_INTERVAL
    /\ update_interval = UPDATE_INTERVAL

\* C9: no session exists before the first fetch; once the stop flag is
\* down, and unless a command never returns, the poller leaves the loop,
\* closes every cached session, empties the cache and the error map, and
\* ends.
C9_Shutdown ==
    /\ [](round = 0 => nsess = 0 /\ Cached(ssh_connections) = {})
    /\ [][pc = "close" /\ pc' = "done"
            => Cached(ssh_connections) \subseteq closed']_vars
    /\ [](pc = "done"
            => /\ ~running
               /\ ssh_connections = EmptyDict
               /\ connection_errors = EmptyDict)
    /\ (~running ~> pc \in {"done", "hung"})

\* the poller ended after at least one round, with every session it had
\* opened closed
C9_Witness ==
    /\ pc = "done"
    /\ nsess > 0
    /\ closed = 1..nsess

\* C10: at most one GPUWorker polling loop is running at any time.
C10_OnePoller == Cardinality(RunningPollers) <= 1

\* C11: every host entry has exactly one of {error, data}: an entry with an
\* error string has no device and no partition statistics, an entry with a
\* device or with partition statistics has no error string, and no entry
\* is without both an error string and an info string.
C11_ErrorXorData ==
    Returned =>
      LET e == fun_out.f.info
          has_error == \E i \in 1..Len(e.gpu_info) : e.gpu_info[i].tag = "Error"
      IN /\ e.gpu_info # <<>>
         /\ (has_error => /\ IsErrorEntry(e)
                          /\ e.gpu_list = <<>>
                          /\ ~e.has_stats
                          /\ DOMAIN e.partition_stats = {})
         /\ (e.gpu_list # <<>> \/ e.has_stats => ~has_error)

\* the Slurm command timed out on a cached session: an error entry
C11_Witness ==
    /\ Returned
    /\ fun_in.server.type = "slurm"
    /\ fun_in.kind = "never"
    /\ IsErrorEntry(fun_out.f.info)
    /\ fun_out.f.info.gpu_list = <<>>

\* C12: a host entry that lacks a required field is left out of polling:
\* nothing is fetched for it in any round, and the poller goes on with the
\* other hosts.
C12_ConfigErrorExcluded ==
    /\ pc # "crashed"
    /\ (call.idx # 0 => ~Incomplete(servers[call.idx]))
    /\ \A i \in 1..Len(servers) :
         Incomplete(servers[i]) => get_server_id(servers[i]) \notin DOMAIN gpu_data

\* C13: no session is ever connected or cached for a loopback host, in
\* direct mode and in scheduler mode.
C13_LoopbackBypass ==
    \A i \in 1..Len(servers) :
      IsLoopback(servers[i]) =>
        /\ Get(ssh_connections, get_server_id(servers[i]), None) = None
        /\ (call.idx = i => call.connects = 0 /\ call.ret = None)

\* C14: no session is ever connected or cached for a host with a proxy
\* spec, in either mode.
C14_ProxyRouting ==
    \A i \in 1..Len(servers) :
      servers[i].proxy =>
        /\ Get(ssh_connections, get_server_id(servers[i]), None) = None
        /\ (call.idx = i => call.connects = 0 /\ call.ret = None)

\* the line has the four fields and its three numbers are numbers
WellFormed(l) == l.nparts >= 4 /\ l.numeric

\* the devices of the well-formed lines, in input order
RECURSIVE DevicesOfWellFormed(_)
DevicesOfWellFormed(lines) ==
    IF lines = <<>> THEN <<>>
    ELSE (IF WellFormed(Head(lines))
          THEN <<[name |-> Head(lines).name, mem_used |-> Head(lines).mem_used,
                  mem_total |-> Head(lines).mem_total,
                  util |-> Head(lines).util]>>
          ELSE <<>>)
         \o DevicesOfWellFormed(Tail(lines))

\* C15: of a direct-mode output every well-formed line gives one device
\* with its values, in input order, every malformed line (too few fields
\* or a non-numeric value) gives only a diagnostic fragment, and the entry
\* is no error entry.
C15_LinesParseIndependently ==
    Returned /\ fun_in.server.type = "direct" /\ fun_in.kind = "ok"
             /\ fun_out.f.issued /\ fun_in.output # <<>> =>
      LET e == fun_out.f.info
          lines == fun_in.output
      IN /\ ~IsErrorEntry(e)
         /\ e.gpu_list = DevicesOfWellFormed(lines)
         /\ Len(e.gpu_info) = Len(lines)
         /\ \A i \in 1..Len(lines) :
              e.gpu_info[i].tag = IF WellFormed(lines[i]) THEN "GPU"
                                  ELSE "Invalid GPU data"

\* the call returned the parse of a scheduler output
ReturnedSlurm ==
    Returned /\ fun_in.server.type = "slurm" /\ fun_in.kind = "ok"
             /\ fun_out.f.issued

\* the names of the partitions listed with a state that is none of
\* drained, inactive, down
ListedUsable(part_lines) ==
    { part_lines[i].name :
        i \in { j \in 1..Len(part_lines) :
                  part_lines[j].has_name
                  /\ part_lines[j].state \notin
                       {"DRAIN", "DRAINED", "INACTIVE", "DOWN"} } }

\* C16: a partition whose state is drained, inactive or down is not valid;
\* every device of a scheduler-mode result has a partition list that is
\* not empty and holds valid partitions only; a node all of whose
\* partitions are excluded gives no device.
C16_DrainedFiltered ==
    ReturnedSlurm =>
      LET parts == fun_in.output.parts
          nodes == fun_in.output.nodes
          gl == fun_out.f.info.gpu_list
          SetOf(seq) == { seq[k] : k \in 1..Len(seq) }
      IN /\ \A i \in 1..Len(parts) :
              parts[i].state \in {"DRAIN", "DRAINED", "INACTIVE", "DOWN"}
                => parts[i].name \notin valid_partitions(parts)
         /\ valid_partitions(parts) = ListedUsable(parts)
         /\ \A i \in 1..Len(gl) :
              /\ gl[i].partitions # <<>>
              /\ SetOf(gl[i].partitions) \subseteq ListedUsable(parts)
         /\ \A j \in 1..Len(nodes) :
              SetOf(nodes[j].partitions) \cap ListedUsable(parts) = {}
                => \A i \in 1..Len(gl) : gl[i].name # nodes[j].name
         /\ DOMAIN fun_out.f.info.partition_stats \subseteq ListedUsable(parts)

\* partition long is drained: node2, which is in long only, gives no
\* device, and node1 gives its devices in partition gpu alone
C16_Witness ==
    /\ ReturnedSlurm
    /\ \E i \in 1..Len(fun_in.output.parts) :
         /\ fun_in.output.parts[i].name = "long"
         /\ fun_in.output.parts[i].state = "DRAINED"
    /\ \E j \in 1..Len(fun_in.output.nodes) :
         fun_in.output.nodes[j].name = "node2"
    /\ \E j \in 1..Len(fun_in.output.nodes) :
         fun_in.output.nodes[j].partitions = <<"gpu", "long">>
    /\ fun_out.f.info.gpu_list # <<>>
    /\ \A i \in 1..Len(fun_out.f.info.gpu_list) :
         /\ fun_out.f.info.gpu_list[i].name = "node1"
         /\ fun_out.f.info.gpu_list[i].partitions = <<"gpu">>

\* C17: after a snapshot was delivered in which the device list of a host
\* has a device with utilization > 0, the last active time of that host is
\* the time of that delivery, for direct and scheduler hosts and in both
\* display styles.
C17_IdleReset ==
    \A host \in DOMAIN delivered.data :
      HasBusyDevice(delivered.data[host])
        => last_active_times[host] = delivered.at

\* C18: an idle check raises one alert that names exactly the hosts whose
\* last active time is more than the threshold ago, and none when there is
\* no such host; a host for which no busy device was delivered for more
\* than the threshold is named by every check.
C18_IdleAlert ==
    [][idle_alert' # idle_alert =>
         LET late == { host \in DOMAIN last_active_times :
                         now - last_active_times[host] > IDLE_THRESHOLD }
         IN /\ idle_alert'.hosts = late
            /\ idle_alert'.notified = IF late = {} THEN 0 ELSE 1
            /\ \A host \in DOMAIN seen_active :
                 now - seen_active[host] > IDLE_THRESHOLD
                   => host \in idle_alert'.hosts]_vars

\* a check names the direct host, idle for more than the threshold, and not
\* the scheduler host, which was busy since
C18_Witness ==
    /\ idle_alert.checked
    /\ idle_alert.at = now
    /\ idle_alert.notified = 1
    /\ idle_alert.hosts = {<<"gpu1", DefaultPort>>}
    /\ delivered.at > 0
    /\ display_style = "compact"

\* C19: a round binds gpu_data to a new, empty dict, and no step of the
\* poller, in a later round or at shutdown, changes a dict that was
\* emitted, nor an entry in it.
C19_SnapshotsAreValues ==
    /\ [][round' # round
            => gpu_ref' > gpu_ref /\ gpu_ref' > emitted /\ gpu_data' = EmptyDict]_vars
    /\ [][gpu_data' # gpu_data => gpu_ref' > emitted]_vars
    /\ [][emitted' # emitted => emitted' = gpu_ref /\ gpu_data' = gpu_data]_vars
    /\ [](emitted <= gpu_ref)

\* the second round is filling its dict after the first one was emitted
C19_Witness ==
    /\ emitted = 1
    /\ gpu_ref = 2
    /\ pc = "fetch"
    /\ gpu_data # EmptyDict

\* C20: simplify_gpu_name("NVIDIA GeForce RTX 3080") is "RTX 3080", and
\* simplify_gpu_name("Weird Vendor Card X1"), a name with no mapping key
\* in it, is its first two words, "Weird Vendor".
C20_SimplifyExamples ==
    fun_out.done /\ fun_in.fn = "simplify_gpu_name" =>
      /\ (fun_in.name = <<"N", "V", "I", "D", "I", "A", " ", "G", "e", "F", "o", "r", "c", "e", " ", "R", "T", "X", " ", "3", "0", "8", "0">>
            => fun_out.name = <<"R", "T", "X", " ", "3", "0", "8", "0">>)
      /\ (fun_in.name = <<"W", "e", "i", "r", "d", " ", "V", "e", "n", "d", "o", "r", " ", "C", "a", "r", "d", " ", "X", "1">>
            => /\ first_mapping(fun_in.name, 1) = 0
               /\ fun_out.name = <<"W", "e", "i", "r", "d", " ", "V", "e", "n", "d", "o", "r">>)

\* both examples have been evaluated
C20_Witness ==
    /\ fun_out.done
    /\ fun_in.fn = "simplify_gpu_name"
    /\ fun_in.name = <<"W", "e", "i", "r", "d", " ", "V", "e", "n", "d", "o", "r", " ", "C", "a", "r", "d", " ", "X", "1">>
    /\ fun_out.name = <<"W", "e", "i", "r", "d", " ", "V", "e", "n", "d", "o", "r">>

\* the number of GPUs a Gres= token declares: the token is a comma
\* separated list of name[:type][:count][(S:sockets)], and the count of an
\* element is 1 when it is left out
GresDeclared(gres) ==
    LET elems == IF gres = NoToken THEN <<>> ELSE split_on(gres, ",", <<>>)
        Spec1(e) == Head(split_on(e, "(", <<>>))
        Count(e) ==
            LET parts == split_on(Spec1(e), ":", <<>>)
            IN IF parts[1] # <<"g", "p", "u">> THEN 0
               ELSE IF isdigit(parts[Len(parts)]) THEN int(parts[Len(parts)])
               ELSE 1
        Sum[k \in 0..Len(elems)] ==
            IF k = 0 THEN 0 ELSE Sum[k - 1] + Count(elems[k])
    IN Sum[Len(elems)]

\* the devices of a result that carry the name of a node
DevicesOf(gpu_list, name) ==
    { i \in 1..Len(gpu_list) : gpu_list[i].name = name }

\* C21: each retained node gives exactly gpu_count devices, gpu_count being
\* the count of the Gres= token or, when that is missing or zero, the count
\* of the CfgTRES= token; every device has memory 0 and utilization 0 or
\* 100, and min(allocated count, gpu_count) devices of the node have 100.
C21_DeviceSynthesis ==
    ReturnedSlurm =>
      LET nodes == fun_in.output.nodes
          valid == valid_partitions(fun_in.output.parts)
          gl == fun_out.f.info.gpu_list
      IN \A j \in 1..Len(nodes) :
           nodes[j].has_name /\ FilterSeq(nodes[j].partitions, valid) # <<>> =>
             LET gpu_count == IF GresDeclared(nodes[j].gres) # 0
                              THEN GresDeclared(nodes[j].gres)
                              ELSE tres_gpus(nodes[j].cfg)
                 allocated == tres_gpus(nodes[j].alloc)
                 devs == DevicesOf(gl, nodes[j].name)
             IN /\ Cardinality(devs) = gpu_count
                /\ \A i \in devs : /\ gl[i].mem_used = 0
                                    /\ gl[i].mem_total = 0
                                    /\ gl[i].util \in {0, 100}
                /\ Cardinality({ i \in devs : gl[i].util = 100 })
                     = IF allocated < gpu_count THEN allocated ELSE gpu_count

\* C22: in a scheduler-mode result the partitions with statistics are the
\* partitions in some device's partition list; total(p) is the number of
\* devices listing p and free(p) the number of those with utilization 0,
\* so 0 <= free(p) <= total(p); a device of a node in k valid partitions
\* counts in all k, and the host-wide total counts every device once.
C22_PartitionStats ==
    ReturnedSlurm =>
      LET gl == fun_out.f.info.gpu_list
          stats == fun_out.f.info.partition_stats
          Listing(p) == { i \in 1..Len(gl) :
                            \E k \in 1..Len(gl[i].partitions) :
                               gl[i].partitions[k] = p }
          Free(is) == { i \in is : gl[i].util = 0 }
      IN /\ DOMAIN stats = { p \in { PartitionNames[k] : k \in 1..Len(PartitionNames) } :
                               Listing(p) # {} }
         /\ \A p \in DOMAIN stats :
              /\ stats[p].total = Cardinality(Listing(p))
              /\ stats[p].free = Cardinality(Free(Listing(p)))
              /\ 0 <= stats[p].free /\ stats[p].free <= stats[p].total
         /\ fun_out.f.info.gpu_info[1]
              = Frag("Total", "", Cardinality(Free(1..Len(gl))), Len(gl))

\* node1 is in the valid partitions gpu and long, node2 in long only:
\* the two devices of node1 count in both, and the host has 3 devices
C22_Witness ==
    /\ ReturnedSlurm
    /\ Len(fun_out.f.info.gpu_list) = 3
    /\ fun_out.f.info.gpu_list[1].partitions = <<"gpu", "long">>
    /\ fun_out.f.info.partition_stats
         = [gpu |-> [free |-> 1, total |-> 2], long |-> [free |-> 1, total |-> 3]]

\* C23: when several keys of the mapping are in a device name,
\* simplify_gpu_name returns the label of the longest of them; the prefix
\* fallback is used only when no key is in the name.
C23_MostSpecificWins ==
    fun_out.done /\ fun_in.fn = "simplify_gpu_name" =>
      LET name == strip(fun_in.name)
          matching == { k \in 1..Len(gpu_mappings) :
                          Contains(name, gpu_mappings[k][1]) }
      IN IF matching = {}
         THEN first_mapping(name, 1) = 0
         ELSE \E k \in matching :
                /\ \A j \in matching :
                      Len(gpu_mappings[j][1]) <= Len(gpu_mappings[k][1])
                /\ fun_out.name = gpu_mappings[k][2]

\* C24: a connect attempt offers the explicit key file when one is
\* configured and exists, otherwise the default key when it exists,
\* otherwise the configured password; it offers exactly one credential.
C24_CredentialOrder ==
    fun_out.done /\ fun_in.fn = "connect_credential" =>
      LET explicit == fun_in.key_file \notin {Absent, ""}
                      /\ expanduser(fun_in.key_file) \in fun_in.files
          default == "/home/u/.ssh/id_rsa" \in fun_in.files
          cred == fun_out.cred
      IN /\ explicit
              => cred = Credential(expanduser(fun_in.key_file), Absent, FALSE)
         /\ ~explicit /\ default
              => cred = Credential("/home/u/.ssh/id_rsa", Absent, FALSE)
         /\ ~explicit /\ ~default /\ fun_in.has_password
              => cred = Credential(Absent, "password", FALSE)
         /\ ~cred.raises
              => (cred.key_filename = Absent) # (cred.password = Absent)

\* a key file is configured but missing, the default key exists and a
\* password is configured: the default key is offered
C24_Witness ==
    /\ fun_out.done
    /\ fun_in.fn = "connect_credential"
    /\ fun_in.key_file = "~/.ssh/gpu_key"
    /\ fun_in.files = {"~/.ssh/gpu_key", "/home/u/.ssh/id_rsa"}
    /\ fun_in.has_password
    /\ fun_out.cred = Credential("/home/u/.ssh/id_rsa", Absent, FALSE)

\* C25: a delivered snapshot changes the last active time of a host only
\* if the entry of that host has a device with utilization > 0; error
\* entries, empty and all-zero device lists and the entries of other hosts
\* leave it as it was, and an idle check changes no last active time.
C25_OnlyOnActivity ==
    /\ [][/\ DOMAIN last_active_times' = DOMAIN last_active_times
           /\ \A host \in DOMAIN last_active_times :
                last_active_times'[host] # last_active_times[host]
                  => /\ delivered'.at = now
                     /\ host \in DOMAIN delivered'.data
                     /\ HasBusyDevice(delivered'.data[host])
                     /\ last_active_times'[host] = now]_vars
    /\ [][idle_alert' # idle_alert
            => last_active_times' = last_active_times]_vars

\* at time 2 a snapshot came with an all-zero device list for gpu1 and an
\* error entry for hpc, and an idle check followed: both hosts keep the
\* last active time 0
C25_Witness ==
    /\ delivered.at = 2
    /\ delivered.data[<<"gpu1", DefaultPort>>] = ParseDirect(<<IdleLine>>)
    /\ IsErrorEntry(delivered.data[<<"hpc", DefaultPort>>])
    /\ idle_alert.checked /\ idle_alert.at = 2
    /\ \A host \in DOMAIN last_active_times : last_active_times[host] = 0

\* C26: every session a running poller has opened is the session cached
\* for its host id or has been closed, and a cached session is replaced
\* only after it was closed, also when two entries share a host:port id.
C26_NoSessionLeak ==
    /\ [](\A s \in 1..nsess : s \in Cached(ssh_connections) \/ s \in closed)
    /\ [][\A sid \in DOMAIN ssh_connections :
            ssh_connections[sid] # None
            /\ Get(ssh_connections', sid, None) # ssh_connections[sid]
              => ssh_connections[sid] \in closed']_vars

\* two entries share the id of gpu1; its first session died and was
\* closed, and the second session is the cached one
C26_Witness ==
    /\ Len(servers) = 2
    /\ get_server_id(servers[1]) = get_server_id(servers[2])
    /\ nsess = 2
    /\ closed = {1}
    /\ ssh_connections[<<"gpu1", DefaultPort>>] = 2
    /\ pc = "fetch"

\* C27: once stop() has been called no new round is started, and at most
\* one further snapshot is emitted: the flag stays down, the round in
\* progress is the last one, every emit publishes the snapshot of one
\* round, and at most one round is not yet emitted at any time.
C27_AtMostOneAfterStop ==
    /\ [][~running => ~running' /\ round' = round /\ gpu_ref' = gpu_ref]_vars
    /\ [][emitted' # emitted => emitted' = emitted + 1 /\ emitted' = gpu_ref]_vars
    /\ [](emitted <= gpu_ref /\ gpu_ref <= emitted + 1)

\* stop() was called during the second round: its snapshot, with entries
\* in it, is still to be emitted
C27_Witness ==
    /\ ~running
    /\ pc = "emit"
    /\ round = 2
    /\ gpu_ref = emitted + 1
    /\ gpu_data # EmptyDict

\* C28: after close_widget of a GPU monitor, no idle check of that widget
\* raises an alert, however much time passes.
C28_NoAlertAfterClose ==
    [][~widgets[1].monitoring /\ idle_alert' # idle_alert
         => idle_alert'.notified = 0]_vars

\* C29: after the idle threshold was changed through auto_save_settings,
\* an idle check names the hosts whose last active time is more than the
\* configured threshold ago.
C29_ThresholdConfigurable ==
    [][idle_alert' # idle_alert
         => idle_alert'.hosts
              = { host \in DOMAIN last_active_times :
                    now - last_active_times[host] > GPU_CONFIG.idle_threshold }]_vars

\* C30: after the update interval was changed through auto_save_settings,
\* the poller of every widget, one started after the change included, has
\* the configured interval.
C30_IntervalReachesPollers ==
    \A i \in 1..Len(widgets) :
      widgets[i].worker_alive
        => widgets[i].update_interval = GPU_CONFIG.update_interval

====
